---------------------------- MODULE Spec2Model ----------------------------
(***************************************************************************)
(* State-machine model of qadataswap's SharedMemoryArena                   *)
(* (src/src/cpp/src/shared_memory_arena.cpp, qadataswap_core.h): the       *)
(* shared-memory ring of buffer_count slots, the two named counting        *)
(* semaphores, and the writer / reader handles that operate on them.       *)
(*                                                                         *)
(* Every load, store, fetch_add and semaphore call on shared state is one  *)
(* step, so that the handles interleave the way separate processes do.     *)
(* Handle-local work (statistics, return) is folded into the last shared   *)
(* step of the call.                                                       *)
(***************************************************************************)
EXTENDS Integers, Sequences, FiniteSets, TLC

(***************************************************************************)
(* Bounds of the model.                                                    *)
(***************************************************************************)
\* number of ring slots the writer is constructed with (constructor argument)
buffer_count == 2
\* byte capacity of one slot (derived from the constructor's size argument)
buffer_size == 2
\* number of WriteRecordBatch calls the writer makes
MaxBatches == 4
\* number of reader handles
NumReaders == 2
\* number of timed waits that expire, per reader handle
MaxTimeouts == 1
\* number of AttachReader calls made on one handle
MaxAttaches == 2
\* number of NotifyDataReady calls made in a run
MaxNotifies == 1
\* largest size argument of the constructor, in cache lines
MaxRegionLines == 16
\* largest buffer_count argument of the constructor
MaxSlots == 3
\* width in bits of size_t in the geometry arithmetic
SizeBits == 16

(***************************************************************************)
(* Program constants.                                                      *)
(***************************************************************************)
MAGIC_NUMBER == 1363427667
VERSION == 1
CACHE_LINE_SIZE == 64
\* sizeof(SharedMemoryHeader): 213 bytes of packed members, rounded up to
\* the alignment of 64
SizeofHeader == 256
\* sizeof(SharedMemoryHeader::BufferState), packed
SizeofBufferState == 17

Writer == 0
Readers == 1..NumReaders
\* the reader of the runs with a single reader
SerialReader == 1
Handles == {Writer} \cup Readers
Slots == 0..(buffer_count - 1)

(***************************************************************************)
(* Record batches and the frame codec.  A batch is <<id, n>>: the id tells *)
(* batches apart, n is the length in bytes of its serialized IPC stream.   *)
(* Byte i of the stream of batch <<id, n>> is <<id, n, i>>, so that a      *)
(* stream cut short, or assembled from two different batches, does not     *)
(* decode.                                                                 *)
(***************************************************************************)
\* the geometry of the runs that do not follow it
NoGeom == [stage |-> "none"]

NoBatch == <<0, 0>>
ZeroByte == <<0, 0, 0>>
\* serialized sizes the callers pass: a short frame, one that fills the slot
\* exactly, and one that is a byte too long
Sizes == {1, buffer_size, buffer_size + 1}
\* the two sizes on either side of the slot's capacity
BoundarySizes == {buffer_size, buffer_size + 1}
\* the size that fills the slot exactly
FullSizes == {buffer_size}

Frame(batch) == [i \in 1..batch[2] |-> <<batch[1], batch[2], i>>]

\* a stricter test, under which the last byte of the slot cannot be used
FitsStrict(batch, size) == Len(Frame(batch)) < size
\* FixedSizeBufferWriter: a write past the end of the wrapped buffer fails
Fits(batch, size) == Len(Frame(batch)) <= size

\* the first k bytes of the slot replaced by the first k bytes written
WriteBytes(buffer, bytes, k) ==
    [i \in 1..Len(buffer) |-> IF i <= k /\ i <= Len(bytes) THEN bytes[i] ELSE buffer[i]]

\* RecordBatchStreamReader over the first `size` bytes of the slot
DeserializeRecordBatch(buffer, size) ==
    IF /\ size \in 1..Len(buffer)
       /\ buffer[1][1] # 0
       /\ \A i \in 1..size : buffer[i] = <<buffer[1][1], size, i>>
    THEN <<buffer[1][1], size>>
    ELSE NoBatch

VARIABLES
    \* the kernel's namespace: the shared-memory object "/qads_<name>" and
    \* the two semaphore names
    kernel,
    \* SharedMemoryHeader, in the mapped region: the plain fields
    hdr,
    \* SharedMemoryHeader: the atomic fields
    writer_active, reader_count,
    write_sequence, read_sequence,
    \* SharedMemoryHeader::BufferState, one per slot
    data_size, ready, timestamp,
    \* the slots' payload bytes
    buffers,
    \* the values of the two named semaphores
    write_sem, read_sem,
    \* SharedMemoryArena members, per handle
    arena, stats,
    \* where each handle is in the call it is executing
    pc,
    \* locals of the call in progress, per handle
    local,
    \* what the last call on the handle returned
    ret,
    \* the run so far: calls made, batches written, batches each reader got,
    \* and the readers whose AttachReader returned true and that have not
    \* called Close since
    calls, produced, received, attached,
    \* the number of AttachReader calls made on each handle
    attaches,
    \* the streaming adaptor made from each handle: Writer::finished_ on the
    \* writing side, the Iterator of Reader on the reading side
    stream,
    \* the role in which each handle first attached with success
    role,
    \* the number of NotifyDataReady calls made so far
    notifies,
    \* the byte geometry: the constructor's arguments and the members it
    \* computed, the geometry fields of the header, the size of the object
    \* as fstat reports it, and the members of a reader that attached
    geom

ringVars == <<write_sequence, read_sequence, data_size, ready, timestamp, buffers>>
semVars == <<write_sem, read_sem>>
handleVars == <<arena, kernel, hdr, writer_active, reader_count, attached, attaches,
               stream, role>>
\* the history of the run, and the byte geometry, which no operation on the
\* ring or on the semaphores touches
histVars == <<calls, produced, received, notifies, geom>>
vars == <<kernel, hdr, writer_active, reader_count,
          write_sequence, read_sequence, data_size, ready, timestamp, buffers,
          write_sem, read_sem, arena, stats, pc, local, ret,
          calls, produced, received, attached, attaches, stream, role, notifies,
          geom>>

NoStats == [bytes_written |-> 0, bytes_read |-> 0, writes_count |-> 0,
            reads_count |-> 0, wait_timeouts |-> 0]
\* probed records that the call follows a WaitForData that returned OK
NoLocal == [batch |-> NoBatch, idx |-> 0, size |-> 0, timed |-> FALSE, result |-> NoBatch,
            dtor |-> FALSE, probed |-> FALSE]

\* the members as the constructor leaves them
NewArena == [is_writer |-> FALSE, is_attached |-> FALSE, shm_fd |-> "none",
             mapped_memory |-> "nullptr", header |-> "nullptr",
             write_sem |-> "nullptr", read_sem |-> "nullptr"]
\* the members of a handle that maps the region and holds both semaphores
MappedArena(w) == [is_writer |-> w, is_attached |-> TRUE, shm_fd |-> "open",
                   mapped_memory |-> "mapped", header |-> "mapped",
                   write_sem |-> "open", read_sem |-> "open"]
\* a region of zero bytes, as ftruncate extends it
ZeroHeader == [magic |-> 0, version |-> 0, write_sem_name |-> "", read_sem_name |-> ""]

(***************************************************************************)
(* The state after CreateWriter on the writer handle and AttachReader on   *)
(* the reader handles in `rs` have returned true.                          *)
(***************************************************************************)
InitAttachedAs(rs, g) ==
    /\ kernel = [shm_linked |-> TRUE, shm_size |-> "total",
                 write_sem_linked |-> TRUE, read_sem_linked |-> TRUE]
    /\ hdr = [magic |-> MAGIC_NUMBER, version |-> VERSION,
              write_sem_name |-> "/qads_w", read_sem_name |-> "/qads_r"]
    /\ writer_active = TRUE
    /\ reader_count = Cardinality(rs)
    /\ attached = rs
    /\ attaches = [h \in Handles |-> IF h \in rs THEN 1 ELSE 0]
    /\ stream = [h \in Handles |-> "none"]
    /\ role = [h \in Handles |-> IF h = Writer THEN "writer"
                                 ELSE IF h \in rs THEN "reader" ELSE "none"]
    /\ write_sequence = 0
    /\ read_sequence = 0
    /\ data_size = [i \in Slots |-> 0]
    /\ ready = [i \in Slots |-> FALSE]
    /\ timestamp = [i \in Slots |-> 0]
    /\ buffers = [i \in Slots |-> [j \in 1..buffer_size |-> ZeroByte]]
    /\ write_sem = buffer_count
    /\ read_sem = 0
    /\ arena = [h \in Handles |->
                  IF h = Writer \/ h \in rs THEN MappedArena(h = Writer) ELSE NewArena]
    /\ stats = [h \in Handles |-> NoStats]
    /\ pc = [h \in Handles |-> "idle"]
    /\ local = [h \in Handles |-> NoLocal]
    /\ ret = [h \in Handles |-> "none"]
    /\ calls = 0
    /\ notifies = 0
    /\ geom = g
    /\ produced = <<>>
    /\ received = [h \in Readers |-> <<>>]

InitAttached(rs) == InitAttachedAs(rs, NoGeom)

Init == InitAttached(Readers)
InitSerial == InitAttached({SerialReader})

(***************************************************************************)
(* The state after the handles have been constructed: nothing exists in    *)
(* the kernel's namespace yet.                                             *)
(***************************************************************************)
InitConstructedAs(g) ==
    /\ kernel = [shm_linked |-> FALSE, shm_size |-> "none",
                 write_sem_linked |-> FALSE, read_sem_linked |-> FALSE]
    /\ hdr = ZeroHeader
    /\ writer_active = FALSE
    /\ reader_count = 0
    /\ attached = {}
    /\ attaches = [h \in Handles |-> 0]
    /\ stream = [h \in Handles |-> "none"]
    /\ role = [h \in Handles |-> "none"]
    /\ write_sequence = 0
    /\ read_sequence = 0
    /\ data_size = [i \in Slots |-> 0]
    /\ ready = [i \in Slots |-> FALSE]
    /\ timestamp = [i \in Slots |-> 0]
    /\ buffers = [i \in Slots |-> [j \in 1..buffer_size |-> ZeroByte]]
    /\ write_sem = 0
    /\ read_sem = 0
    /\ arena = [h \in Handles |-> NewArena]
    /\ stats = [h \in Handles |-> NoStats]
    /\ pc = [h \in Handles |-> "idle"]
    /\ local = [h \in Handles |-> NoLocal]
    /\ ret = [h \in Handles |-> "none"]
    /\ calls = 0
    /\ notifies = 0
    /\ geom = g
    /\ produced = <<>>
    /\ received = [h \in Readers |-> <<>>]

InitConstructed == InitConstructedAs(NoGeom)

(***************************************************************************)
(* The state after the handles have been constructed while a producer that *)
(* died without Close has left both semaphore names bound, with counts the *)
(* ring had reached; the region name is either still bound to its region   *)
(* (writer_active was never cleared) or was removed by hand.               *)
(***************************************************************************)
InitStale ==
    /\ \E region \in BOOLEAN :
        /\ kernel = [shm_linked |-> region,
                     shm_size |-> IF region THEN "total" ELSE "none",
                     write_sem_linked |-> TRUE, read_sem_linked |-> TRUE]
        /\ hdr = IF region
                 THEN [magic |-> MAGIC_NUMBER, version |-> VERSION,
                       write_sem_name |-> "/qads_w", read_sem_name |-> "/qads_r"]
                 ELSE ZeroHeader
        /\ writer_active = region
    /\ reader_count = 0
    /\ attached = {}
    /\ attaches = [h \in Handles |-> 0]
    /\ stream = [h \in Handles |-> "none"]
    /\ role = [h \in Handles |-> "none"]
    /\ write_sequence = 0
    /\ read_sequence = 0
    /\ data_size = [i \in Slots |-> 0]
    /\ ready = [i \in Slots |-> FALSE]
    /\ timestamp = [i \in Slots |-> 0]
    /\ buffers = [i \in Slots |-> [j \in 1..buffer_size |-> ZeroByte]]
    /\ write_sem \in 0..(buffer_count - 1)
    /\ read_sem \in 1..buffer_count
    /\ arena = [h \in Handles |-> NewArena]
    /\ stats = [h \in Handles |-> NoStats]
    /\ pc = [h \in Handles |-> "idle"]
    /\ local = [h \in Handles |-> NoLocal]
    /\ ret = [h \in Handles |-> "none"]
    /\ calls = 0
    /\ notifies = 0
    /\ geom = NoGeom
    /\ produced = <<>>
    /\ received = [h \in Readers |-> <<>>]

GetNextWriteBuffer == write_sequence % buffer_count
\* the slot after the one GetCurrentReadBuffer names
GetCurrentReadBuffer_OffByOne == (read_sequence + 1) % buffer_count
GetCurrentReadBuffer == read_sequence % buffer_count

Goto(h, l) == pc' = [pc EXCEPT ![h] = l]
\* the call returns r; its locals go out of scope
Return(h, r) == /\ pc' = [pc EXCEPT ![h] = "idle"]
                /\ ret' = [ret EXCEPT ![h] = r]
                /\ local' = [local EXCEPT ![h] = NoLocal]

(***************************************************************************)
(* WriteRecordBatch                                                        *)
(***************************************************************************)
\* a role check that tests only is_attached_
NotWriter_AttachedOnly(h) == ~arena[h].is_attached
\* if (!is_writer_ || !is_attached_)
NotWriter(h) == ~arena[h].is_writer \/ ~arena[h].is_attached

\* entry and role check; the caller passes a batch of a size in S
WriteCall(h, S) ==
    /\ pc[h] = "idle"
    /\ calls < MaxBatches
    /\ \E n \in S :
         /\ calls' = calls + 1
         /\ IF NotWriter(h)
            THEN Return(h, "invalid")
            ELSE /\ Goto(h, "w_sem_wait")
                 /\ local' = [local EXCEPT ![h] = [NoLocal EXCEPT !.batch = <<calls + 1, n>>]]
                 /\ ret' = [ret EXCEPT ![h] = "none"]
    /\ UNCHANGED <<ringVars, semVars, handleVars, stats, produced, received, notifies, geom>>

\* the outcomes of sem_wait / sem_post on the handle's semaphore pointer:
\* defined on an open semaphore; on SEM_FAILED, which a failed sem_open left
\* in the member, the call faults or fails with EINVAL
SemCallOutcomes(sem) == IF sem = "open" THEN {"defined"} ELSE {"crash", "einval"}

\* sem_wait(write_sem_); a failure returns IOError
WriteSemWait(h) ==
    /\ pc[h] = "w_sem_wait"
    /\ \E o \in SemCallOutcomes(arena[h].write_sem) :
         CASE o = "defined" ->
                /\ write_sem > 0
                /\ write_sem' = write_sem - 1
                /\ Goto(h, "w_serialize")
                /\ UNCHANGED <<local, ret>>
           [] o = "crash" ->
                /\ pc' = [pc EXCEPT ![h] = "crashed"]
                /\ UNCHANGED <<write_sem, local, ret>>
           [] o = "einval" ->
                /\ Return(h, "ioerror")
                /\ UNCHANGED write_sem
    /\ UNCHANGED <<ringVars, read_sem, handleVars, stats, histVars>>

\* GetNextWriteBuffer and SerializeRecordBatch into the slot
WriteSerialize(h) ==
    /\ pc[h] = "w_serialize"
    /\ LET idx == GetNextWriteBuffer
           bytes == Frame(local[h].batch)
       IN IF Fits(local[h].batch, buffer_size)
          THEN /\ buffers' = [buffers EXCEPT ![idx] = WriteBytes(@, bytes, Len(bytes))]
               /\ local' = [local EXCEPT ![h].idx = idx, ![h].size = Len(bytes)]
               /\ Goto(h, "w_store_size")
               /\ UNCHANGED ret
          ELSE \* the stream writer fails part-way: ARROW_RETURN_NOT_OK
               /\ \E k \in {0, buffer_size} :
                    buffers' = [buffers EXCEPT ![idx] = WriteBytes(@, bytes, k)]
               /\ Return(h, "ioerror")
    /\ UNCHANGED <<write_sequence, read_sequence, data_size, ready, timestamp,
                   semVars, handleVars, stats, histVars>>

\* a publish that leaves the slot's data_size as it was
WriteStoreSize_Skipped(h) ==
    /\ pc[h] = "w_store_size"
    /\ Goto(h, "w_store_time")
    /\ UNCHANGED <<write_sequence, read_sequence, data_size, ready, timestamp, buffers,
                   semVars, handleVars, stats, local, ret, histVars>>

\* buffer_states[idx].data_size.store(serialized_size)
WriteStoreSize(h) ==
    /\ pc[h] = "w_store_size"
    /\ data_size' = [data_size EXCEPT ![local[h].idx] = local[h].size]
    /\ Goto(h, "w_store_time")
    /\ UNCHANGED <<write_sequence, read_sequence, ready, timestamp, buffers,
                   semVars, handleVars, stats, local, ret, histVars>>

\* buffer_states[idx].timestamp.store(now): the steady clock read as the
\* number of the publish
WriteStoreTime(h) ==
    /\ pc[h] = "w_store_time"
    /\ timestamp' = [timestamp EXCEPT ![local[h].idx] = write_sequence + 1]
    /\ Goto(h, "w_store_ready")
    /\ UNCHANGED <<write_sequence, read_sequence, data_size, ready, buffers,
                   semVars, handleVars, stats, local, ret, histVars>>

\* buffer_states[idx].ready.store(true)
WriteStoreReady(h) ==
    /\ pc[h] = "w_store_ready"
    /\ ready' = [ready EXCEPT ![local[h].idx] = TRUE]
    /\ Goto(h, "w_inc_seq")
    /\ UNCHANGED <<write_sequence, read_sequence, data_size, timestamp, buffers,
                   semVars, handleVars, stats, local, ret, histVars>>

\* write_sequence.fetch_add(1)
WriteIncSeq(h) ==
    /\ pc[h] = "w_inc_seq"
    /\ write_sequence' = write_sequence + 1
    /\ Goto(h, "w_post")
    /\ UNCHANGED <<read_sequence, data_size, ready, timestamp, buffers,
                   semVars, handleVars, stats, local, ret, histVars>>

\* sem_post(read_sem_), statistics, return OK
WritePost(h) ==
    /\ pc[h] = "w_post"
    /\ \E o \in SemCallOutcomes(arena[h].read_sem) :
         IF o = "crash"
         THEN /\ pc' = [pc EXCEPT ![h] = "crashed"]
              /\ UNCHANGED <<read_sem, stats, produced, local, ret>>
         ELSE \* the result of sem_post is not tested
              /\ read_sem' = IF o = "defined" THEN read_sem + 1 ELSE read_sem
              /\ stats' = [stats EXCEPT ![h].bytes_written = @ + local[h].size,
                                        ![h].writes_count = @ + 1]
              /\ produced' = Append(produced, local[h].batch)
              /\ Return(h, "ok")
    /\ UNCHANGED <<ringVars, write_sem, handleVars, calls, received, notifies, geom>>

WriteRecordBatch(h, S) ==
    \/ WriteCall(h, S)
    \/ WriteSemWait(h)
    \/ WriteSerialize(h)
    \/ WriteStoreSize(h)
    \/ WriteStoreTime(h)
    \/ WriteStoreReady(h)
    \/ WriteIncSeq(h)
    \/ WritePost(h)

(***************************************************************************)
(* ReadRecordBatch                                                         *)
(***************************************************************************)
\* if (is_writer_ || !is_attached_)
NotReader(h) == arena[h].is_writer \/ ~arena[h].is_attached

\* entry and role check; timeout_ms >= 0 is a timed wait, < 0 waits for ever
ReadCall(h) ==
    /\ pc[h] = "idle"
    /\ \E timed \in BOOLEAN :
         IF NotReader(h)
         THEN Return(h, "invalid")
         ELSE /\ Goto(h, "r_sem_wait")
              /\ local' = [local EXCEPT ![h] = [NoLocal EXCEPT !.timed = timed,
                                                 !.probed = (ret[h] = "wait_ok")]]
              /\ ret' = [ret EXCEPT ![h] = "none"]
    /\ UNCHANGED <<ringVars, semVars, handleVars, stats, histVars>>

\* sem_timedwait(read_sem_) / sem_wait(read_sem_): the token is taken
ReadSemWait(h) ==
    /\ pc[h] = "r_sem_wait"
    /\ read_sem > 0
    /\ read_sem' = read_sem - 1
    /\ Goto(h, "r_load_seq")
    /\ UNCHANGED <<ringVars, write_sem, handleVars, stats, local, ret, histVars>>

\* a timeout path that gives a free token back, as the not-ready path does
ReadTimeout_Posts(h) ==
    /\ pc[h] = "r_sem_wait"
    /\ local[h].timed
    /\ read_sem = 0
    /\ stats[h].wait_timeouts < MaxTimeouts
    /\ stats' = [stats EXCEPT ![h].wait_timeouts = @ + 1]
    /\ write_sem' = write_sem + 1
    /\ Return(h, "timeout")
    /\ UNCHANGED <<ringVars, read_sem, handleVars, histVars>>

\* a timeout path that keeps no count, as the one of WaitForData
ReadTimeout_Uncounted(h) ==
    /\ pc[h] = "r_sem_wait"
    /\ local[h].timed
    /\ read_sem = 0
    /\ stats[h].wait_timeouts < MaxTimeouts
    /\ Return(h, "timeout")
    /\ UNCHANGED <<ringVars, semVars, handleVars, stats, histVars>>

\* sem_timedwait(read_sem_) expires: ETIMEDOUT
ReadTimeout(h) ==
    /\ pc[h] = "r_sem_wait"
    /\ local[h].timed
    /\ read_sem = 0
    /\ stats[h].wait_timeouts < MaxTimeouts
    /\ stats' = [stats EXCEPT ![h].wait_timeouts = @ + 1]
    /\ Return(h, "timeout")
    /\ UNCHANGED <<ringVars, semVars, handleVars, histVars>>

\* GetCurrentReadBuffer
ReadLoadSeq(h) ==
    /\ pc[h] = "r_load_seq"
    /\ local' = [local EXCEPT ![h].idx = GetCurrentReadBuffer]
    /\ Goto(h, "r_check_ready")
    /\ UNCHANGED <<ringVars, semVars, handleVars, stats, ret, histVars>>

\* a not-ready branch that also moves on to the next slot
ReadCheckReady_Advances(h) ==
    /\ pc[h] = "r_check_ready"
    /\ IF ready[local[h].idx]
       THEN /\ Goto(h, "r_load_size")
            /\ UNCHANGED <<write_sem, read_sequence, local, ret>>
       ELSE /\ write_sem' = write_sem + 1
            /\ read_sequence' = read_sequence + 1
            /\ Return(h, "not_ready")
    /\ UNCHANGED <<write_sequence, data_size, ready, timestamp, buffers,
                   read_sem, handleVars, stats, histVars>>

\* buffer_states[idx].ready.load(); when the slot is not ready:
\* sem_post(write_sem_) and return IOError("Buffer not ready").  The post
\* only ever enables the writer's sem_wait, so taking it in the same step as
\* the load loses no interleaving.
ReadCheckReady(h) ==
    /\ pc[h] = "r_check_ready"
    /\ IF ready[local[h].idx]
       THEN /\ Goto(h, "r_load_size")
            /\ UNCHANGED <<write_sem, local, ret>>
       ELSE /\ write_sem' = write_sem + 1
            /\ Return(h, "not_ready")
    /\ UNCHANGED <<ringVars, read_sem, handleVars, stats, histVars>>

\* buffer_states[idx].data_size.load()
ReadLoadSize(h) ==
    /\ pc[h] = "r_load_size"
    /\ local' = [local EXCEPT ![h].size = data_size[local[h].idx]]
    /\ Goto(h, "r_deserialize")
    /\ UNCHANGED <<ringVars, semVars, handleVars, stats, ret, histVars>>

\* a decode whose failure leaves ReadRecordBatch at once
ReadDeserialize_Raises(h) ==
    /\ pc[h] = "r_deserialize"
    /\ IF DeserializeRecordBatch(buffers[local[h].idx], local[h].size) = NoBatch
       THEN Return(h, "decode_error")
       ELSE /\ local' = [local EXCEPT ![h].result =
                           DeserializeRecordBatch(buffers[local[h].idx], local[h].size)]
            /\ Goto(h, "r_clear_ready")
            /\ UNCHANGED ret
    /\ UNCHANGED <<ringVars, semVars, handleVars, stats, histVars>>

\* DeserializeRecordBatch(buffer, data_size)
ReadDeserialize(h) ==
    /\ pc[h] = "r_deserialize"
    /\ local' = [local EXCEPT ![h].result =
                    DeserializeRecordBatch(buffers[local[h].idx], local[h].size)]
    /\ Goto(h, "r_clear_ready")
    /\ UNCHANGED <<ringVars, semVars, handleVars, stats, ret, histVars>>

\* buffer_states[idx].ready.store(false)
ReadClearReady(h) ==
    /\ pc[h] = "r_clear_ready"
    /\ ready' = [ready EXCEPT ![local[h].idx] = FALSE]
    /\ Goto(h, "r_inc_seq")
    /\ UNCHANGED <<write_sequence, read_sequence, data_size, timestamp, buffers,
                   semVars, handleVars, stats, local, ret, histVars>>

\* read_sequence.fetch_add(1)
ReadIncSeq(h) ==
    /\ pc[h] = "r_inc_seq"
    /\ read_sequence' = read_sequence + 1
    /\ Goto(h, "r_post")
    /\ UNCHANGED <<write_sequence, data_size, ready, timestamp, buffers,
                   semVars, handleVars, stats, local, ret, histVars>>

\* the end of ReadRecordBatch without sem_post(write_sem_)
ReadPost_NoPost(h) ==
    /\ pc[h] = "r_post"
    /\ IF local[h].result # NoBatch
       THEN /\ stats' = [stats EXCEPT ![h].bytes_read = @ + local[h].size,
                                      ![h].reads_count = @ + 1]
            /\ received' = [received EXCEPT ![h] = Append(@, local[h].result)]
            /\ Return(h, "ok")
       ELSE /\ UNCHANGED <<stats, received>>
            /\ Return(h, "decode_error")
    /\ UNCHANGED <<ringVars, semVars, handleVars, calls, produced, notifies, geom>>

\* sem_post(write_sem_), statistics when the decode succeeded, return result
ReadPost(h) ==
    /\ pc[h] = "r_post"
    /\ write_sem' = write_sem + 1
    /\ IF local[h].result # NoBatch
       THEN /\ stats' = [stats EXCEPT ![h].bytes_read = @ + local[h].size,
                                      ![h].reads_count = @ + 1]
            /\ received' = [received EXCEPT ![h] = Append(@, local[h].result)]
            /\ Return(h, "ok")
       ELSE /\ UNCHANGED <<stats, received>>
            /\ Return(h, "decode_error")
    /\ UNCHANGED <<ringVars, read_sem, handleVars, calls, produced, notifies, geom>>

ReadRecordBatch(h) ==
    \/ ReadCall(h)
    \/ ReadSemWait(h)
    \/ ReadTimeout(h)
    \/ ReadLoadSeq(h)
    \/ ReadCheckReady(h)
    \/ ReadLoadSize(h)
    \/ ReadDeserialize(h)
    \/ ReadClearReady(h)
    \/ ReadIncSeq(h)
    \/ ReadPost(h)

(***************************************************************************)
(* WaitForData (src/python/cpp): the probe takes a ready token and puts it *)
(* back.  It has no role check and keeps no statistics.                    *)
(***************************************************************************)
\* entry; timeout_ms >= 0 is a timed wait, < 0 waits for ever
\* the outcomes of a semaphore call through read_sem_, which no code on the
\* path tests: defined on an open semaphore.  nullptr and SEM_FAILED fault
\* or are refused.  A pointer that sem_close has released faults, hits
\* unrelated memory, or, while another handle of the process keeps the same
\* semaphore open (sem_open hands out one mapping per name), still reaches
\* the live semaphore.
ReadSemOutcomes(h) ==
    CASE arena[h].read_sem = "open" -> {"defined"}
      [] arena[h].read_sem = "closed" ->
            {"crash", "stray"} \cup
            (IF \E g \in Handles \ {h} : arena[g].read_sem = "open"
             THEN {"lands"} ELSE {})
      [] OTHER -> {"crash", "stray"}

WaitCall(h) ==
    /\ pc[h] = "idle"
    /\ \E timed \in BOOLEAN :
         local' = [local EXCEPT ![h] = [NoLocal EXCEPT !.timed = timed]]
    /\ Goto(h, "wd_sem_wait")
    /\ ret' = [ret EXCEPT ![h] = "none"]
    /\ UNCHANGED <<ringVars, semVars, handleVars, stats, histVars>>

\* sem_timedwait(read_sem_) / sem_wait(read_sem_): the token is taken
WaitSemWait(h) ==
    /\ pc[h] = "wd_sem_wait"
    /\ \E o \in ReadSemOutcomes(h) :
         CASE o \in {"defined", "lands"} ->
                /\ read_sem > 0
                /\ read_sem' = read_sem - 1
                /\ Goto(h, "wd_post")
                /\ UNCHANGED <<local, ret>>
           [] o = "crash" ->
                /\ pc' = [pc EXCEPT ![h] = "crashed"]
                /\ UNCHANGED <<read_sem, local, ret>>
           [] o = "stray" ->
                \* IOError("Failed to wait for read semaphore")
                /\ Return(h, "ioerror")
                /\ UNCHANGED read_sem
    /\ UNCHANGED <<ringVars, write_sem, handleVars, stats, histVars>>

\* sem_timedwait(read_sem_) expires: ETIMEDOUT, wait_timeouts is not counted
WaitTimeout(h) ==
    /\ pc[h] = "wd_sem_wait"
    /\ ReadSemOutcomes(h) \cap {"defined", "lands"} # {}
    /\ local[h].timed
    /\ read_sem = 0
    /\ Return(h, "timeout")
    /\ UNCHANGED <<ringVars, semVars, handleVars, stats, histVars>>

\* a probe that returns OK and keeps the token
WaitPost_KeepsToken(h) ==
    /\ pc[h] = "wd_post"
    /\ Return(h, "wait_ok")
    /\ UNCHANGED <<ringVars, semVars, handleVars, stats, histVars>>

\* sem_post(read_sem_); return OK
WaitPost(h) ==
    /\ pc[h] = "wd_post"
    /\ read_sem' = read_sem + 1
    /\ Return(h, "wait_ok")
    /\ UNCHANGED <<ringVars, write_sem, handleVars, stats, histVars>>

WaitForData(h) ==
    \/ WaitCall(h)
    \/ WaitSemWait(h)
    \/ WaitTimeout(h)
    \/ WaitPost(h)

\* NotifyDataReady: sem_post(read_sem_), with no role check, no test of
\* is_attached_ and no change to the ring
NotifyDataReady(h) ==
    /\ pc[h] = "idle"
    /\ notifies < MaxNotifies
    /\ notifies' = notifies + 1
    /\ \E o \in ReadSemOutcomes(h) :
         /\ read_sem' = IF o \in {"defined", "lands"} THEN read_sem + 1 ELSE read_sem
         /\ pc' = IF o = "crash" THEN [pc EXCEPT ![h] = "crashed"] ELSE pc
    /\ UNCHANGED <<ringVars, write_sem, handleVars, stats, local, ret,
                   calls, produced, received, geom>>

(***************************************************************************)
(* The streaming adaptors (src/python/cpp): Writer and Reader::Iterator.   *)
(* stream[h] is "finished" once Writer::finished_ is set; on the reading   *)
(* side it is "loading" inside LoadNext, "live" while the iterator holds a *)
(* batch and "end" once is_end_ is set.                                    *)
(***************************************************************************)
\* the steps of WriteRecordBatch after its entry
WriteBody(h) ==
    \/ WriteSemWait(h)
    \/ WriteSerialize(h)
    \/ WriteStoreSize(h)
    \/ WriteStoreTime(h)
    \/ WriteStoreReady(h)
    \/ WriteIncSeq(h)
    \/ WritePost(h)

\* the steps of ReadRecordBatch after its entry
ReadBody(h) ==
    \/ ReadSemWait(h)
    \/ ReadTimeout(h)
    \/ ReadLoadSeq(h)
    \/ ReadCheckReady(h)
    \/ ReadLoadSize(h)
    \/ ReadDeserialize(h)
    \/ ReadClearReady(h)
    \/ ReadIncSeq(h)
    \/ ReadPost(h)

\* Writer::WriteChunk: if (finished_) return Invalid;
\* return arena_->WriteRecordBatch(batch)
WriteChunkCall(h, S) ==
    IF stream[h] = "finished"
    THEN /\ pc[h] = "idle"
         /\ Return(h, "invalid")
         /\ UNCHANGED <<ringVars, semVars, handleVars, stats, histVars>>
    ELSE WriteCall(h, S)

WriteChunk(h, S) ==
    \/ WriteChunkCall(h, S)
    \/ WriteBody(h)

\* Writer::Finish: finished_ = true; return OK
Finish(h) ==
    /\ pc[h] = "idle"
    /\ stream[h] # "finished"
    /\ stream' = [stream EXCEPT ![h] = "finished"]
    /\ Return(h, "ok")
    /\ UNCHANGED <<ringVars, semVars, arena, kernel, hdr, writer_active, reader_count,
                   attached, attaches, role, stats, histVars>>

\* the process that owns the handle ends without Close and without the
\* destructor: nothing in the region or the namespace changes
ProcessExit(h) ==
    /\ pc[h] = "idle"
    /\ pc' = [pc EXCEPT ![h] = "exited"]
    /\ UNCHANGED <<ringVars, semVars, handleVars, stats, local, ret, histVars>>

\* Iterator::LoadNext: reader_->ReadChunk(100), which is
\* arena_->ReadRecordBatch(100); entry and role check of that call
LoadNextCall(h) ==
    /\ pc[h] = "idle"
    /\ stream[h] \in {"none", "live"}
    /\ stream' = [stream EXCEPT ![h] = "loading"]
    /\ IF NotReader(h)
       THEN Return(h, "invalid")
       ELSE /\ Goto(h, "r_sem_wait")
            /\ local' = [local EXCEPT ![h] = [NoLocal EXCEPT !.timed = TRUE]]
            /\ ret' = [ret EXCEPT ![h] = "none"]
    /\ UNCHANGED <<ringVars, semVars, arena, kernel, hdr, writer_active, reader_count,
                   attached, attaches, role, stats, histVars>>

\* if (!result.ok() || !result.ValueOrDie()) is_end_ = true;
\* else current_batch_ = the batch
LoadNextReturn(h) ==
    /\ pc[h] = "idle"
    /\ stream[h] = "loading"
    /\ stream' = [stream EXCEPT ![h] = IF ret[h] = "ok" THEN "live" ELSE "end"]
    /\ UNCHANGED <<ringVars, semVars, arena, kernel, hdr, writer_active, reader_count,
                   attached, attaches, role, stats, pc, local, ret, histVars>>

LoadNext(h) ==
    \/ LoadNextCall(h)
    \/ ReadBody(h)
    \/ LoadNextReturn(h)

(***************************************************************************)
(* CreateWriter, with CreateSharedMemory and InitializeHeader              *)
(*                                                                         *)
(* The region variables hold the contents of one shared-memory object,     *)
(* the one the name was last bound to.  The name is bound to a new object  *)
(* only when no live process maps the previous one or holds a descriptor   *)
(* of it (Recreatable), so that every mapping in the model is a mapping of *)
(* the object the variables describe.                                      *)
(* Failures of the operating system for lack of resources are left out;    *)
(* the failures that the state of the namespace decides are modelled.      *)
(***************************************************************************)
dataVars == <<stats, local, histVars>>
SetArena(h, f, v) == arena' = [arena EXCEPT ![h][f] = v]

\* the processes that have ended take no further step
Gone(h) == pc[h] \in {"crashed", "destroyed", "exited"}
\* no live handle maps the object or has it open.  The model follows one
\* object, the one the name was last bound to: the exclusive create binds
\* the name to a new object only when the previous one has no user left.
Recreatable ==
    \A g \in Handles :
       Gone(g) \/ (arena[g].mapped_memory # "mapped" /\ arena[g].shm_fd # "open")
\* the name has been bound to at most one object so far
FirstGeneration == kernel.shm_linked \/ kernel.shm_size = "none"

(***************************************************************************)
(* The byte geometry of the region.  size_t is SizeBits wide; the          *)
(* arithmetic is unsigned and wraps.                                       *)
(***************************************************************************)
SizeMod == 2 ^ SizeBits
\* x & ~(CACHE_LINE_SIZE - 1)
AlignDown(x) == x - (x % CACHE_LINE_SIZE)
\* (x + CACHE_LINE_SIZE - 1) & ~(CACHE_LINE_SIZE - 1)
AlignUp(x) == AlignDown((x + CACHE_LINE_SIZE - 1) % SizeMod)
\* sizeof(SharedMemoryHeader) + sizeof(BufferState) * buffer_count
HeaderBytes(count) == (SizeofHeader + SizeofBufferState * count) % SizeMod

\* the constructor: total_size_, buffer_count_ and the buffer_size_ it
\* derives from them
Constructor(size, count) ==
    [total_size_ |-> size,
     buffer_count_ |-> count,
     buffer_size_ |->
        AlignDown(((size + SizeMod - AlignUp(HeaderBytes(count))) % SizeMod) \div count)]

\* the geometry fields InitializeHeader stores from the members
HeaderGeometry(m) ==
    [total_size |-> m.total_size_,
     header_size |-> HeaderBytes(m.buffer_count_),
     buffer_count |-> m.buffer_count_,
     buffer_size |-> m.buffer_size_,
     buffers_offset |-> AlignUp(HeaderBytes(m.buffer_count_))]

\* buffers_offset + buffer_idx * buffer_size_, as the read and write paths
\* compute the start of a slot
BufferOffset(hd, idx) == (hd.buffers_offset + idx * hd.buffer_size) % SizeMod

\* the geometry once a reader has gone through AttachSharedMemory:
\* total_size_ = st.st_size, and buffer_count_ and buffer_size_ are taken
\* from the header as they stand
AttachedGeom(g) ==
    [stage |-> "attached", writer |-> g.writer,
     st_size |-> g.st_size, header |-> g.header,
     reader |-> [total_size_ |-> g.st_size,
                 buffer_count_ |-> g.header.buffer_count,
                 buffer_size_ |-> g.header.buffer_size]]

\* entry: if (is_attached_) return false
CreateCall(h) ==
    /\ pc[h] = "idle"
    /\ IF arena[h].is_attached
       THEN Return(h, "false")
       ELSE /\ Goto(h, "cw_shm_open")
            /\ ret' = [ret EXCEPT ![h] = "none"]
            /\ UNCHANGED local
    /\ UNCHANGED <<ringVars, semVars, arena, kernel, hdr, writer_active, reader_count,
                   attached, attaches, stream, role, stats, histVars>>

\* CreateSharedMemory: shm_open(O_CREAT | O_EXCL | O_RDWR)
\* on success the name is bound to a new, empty object
CreateShmOpen(h) ==
    /\ pc[h] = "cw_shm_open"
    /\ IF kernel.shm_linked
       THEN \* EEXIST: shm_fd_ = -1
            /\ SetArena(h, "shm_fd", "none")
            /\ Return(h, "false")
            /\ UNCHANGED <<kernel, ringVars, hdr, writer_active, reader_count>>
       ELSE /\ Recreatable
            /\ kernel' = [kernel EXCEPT !.shm_linked = TRUE, !.shm_size = "zero"]
            /\ SetArena(h, "shm_fd", "open")
            /\ hdr' = ZeroHeader
            /\ writer_active' = FALSE
            /\ reader_count' = 0
            /\ write_sequence' = 0
            /\ read_sequence' = 0
            /\ data_size' = [i \in Slots |-> 0]
            /\ ready' = [i \in Slots |-> FALSE]
            /\ timestamp' = [i \in Slots |-> 0]
            /\ buffers' = [i \in Slots |-> [j \in 1..buffer_size |-> ZeroByte]]
            /\ Goto(h, "cw_ftruncate")
            /\ UNCHANGED <<ret, local>>
    /\ UNCHANGED <<semVars, attached, attaches, stream, role, stats, histVars>>

\* CreateSharedMemory: ftruncate(shm_fd_, total_size_) extends the object
\* with zero bytes
CreateFtruncate(h) ==
    /\ pc[h] = "cw_ftruncate"
    /\ kernel' = [kernel EXCEPT !.shm_size = "total"]
    /\ Goto(h, "cw_mmap")
    /\ UNCHANGED <<ringVars, semVars, arena, hdr, writer_active, reader_count,
                   attached, attaches, stream, role, dataVars, ret>>

\* CreateSharedMemory: mmap, header_ = mapped_memory_
CreateMmap(h) ==
    /\ pc[h] = "cw_mmap"
    /\ arena' = [arena EXCEPT ![h].mapped_memory = "mapped", ![h].header = "mapped"]
    /\ Goto(h, "ih_new")
    /\ UNCHANGED <<ringVars, semVars, kernel, hdr, writer_active, reader_count,
                   attached, attaches, stream, role, dataVars, ret>>

\* InitializeHeader: placement new of the header and of every BufferState
InitHeaderNew(h) ==
    /\ pc[h] = "ih_new"
    /\ hdr' = ZeroHeader
    /\ write_sequence' = 0
    /\ read_sequence' = 0
    /\ writer_active' = FALSE
    /\ reader_count' = 0
    /\ data_size' = [i \in Slots |-> 0]
    /\ ready' = [i \in Slots |-> FALSE]
    /\ timestamp' = [i \in Slots |-> 0]
    /\ Goto(h, "ih_magic")
    /\ UNCHANGED <<buffers, semVars, arena, kernel, attached, attaches, stream, role, dataVars, ret>>

\* InitializeHeader: header_->magic = MAGIC_NUMBER
InitHeaderMagic(h) ==
    /\ pc[h] = "ih_magic"
    /\ hdr' = [hdr EXCEPT !.magic = MAGIC_NUMBER]
    /\ Goto(h, "ih_version")
    /\ UNCHANGED <<ringVars, semVars, arena, kernel, writer_active, reader_count,
                   attached, attaches, stream, role, dataVars, ret>>

\* InitializeHeader: header_->version = VERSION, the geometry fields, and
\* the stores that clear every BufferState again
InitHeaderVersion(h) ==
    /\ pc[h] = "ih_version"
    /\ hdr' = [hdr EXCEPT !.version = VERSION]
    /\ data_size' = [i \in Slots |-> 0]
    /\ ready' = [i \in Slots |-> FALSE]
    /\ timestamp' = [i \in Slots |-> 0]
    /\ Goto(h, "cw_name_w")
    /\ UNCHANGED <<write_sequence, read_sequence, buffers, semVars, arena, kernel,
                   writer_active, reader_count, attached, attaches, stream, role, dataVars, ret>>

\* is_writer_ = true; is_attached_ = true; snprintf(header_->write_sem_name)
CreateNameWrite(h) ==
    /\ pc[h] = "cw_name_w"
    /\ arena' = [arena EXCEPT ![h].is_writer = TRUE, ![h].is_attached = TRUE]
    /\ hdr' = [hdr EXCEPT !.write_sem_name = "/qads_w"]
    /\ Goto(h, "cw_name_r")
    /\ UNCHANGED <<ringVars, semVars, kernel, writer_active, reader_count,
                   attached, attaches, stream, role, dataVars, ret>>

\* snprintf(header_->read_sem_name)
CreateNameRead(h) ==
    /\ pc[h] = "cw_name_r"
    /\ hdr' = [hdr EXCEPT !.read_sem_name = "/qads_r"]
    /\ Goto(h, "cw_unlink")
    /\ UNCHANGED <<ringVars, semVars, arena, kernel, writer_active, reader_count,
                   attached, attaches, stream, role, dataVars, ret>>

\* sem_unlink of both names
CreateSemUnlink(h) ==
    /\ pc[h] = "cw_unlink"
    /\ kernel' = [kernel EXCEPT !.write_sem_linked = FALSE, !.read_sem_linked = FALSE]
    /\ Goto(h, "cw_open_w")
    /\ UNCHANGED <<ringVars, semVars, arena, hdr, writer_active, reader_count,
                   attached, attaches, stream, role, dataVars, ret>>

\* the semaphore is created with no tokens
CreateSemOpenWrite_NoTokens(h) ==
    /\ pc[h] = "cw_open_w"
    /\ IF kernel.write_sem_linked
       THEN /\ SetArena(h, "write_sem", "SEM_FAILED")
            /\ UNCHANGED <<kernel, write_sem>>
       ELSE /\ kernel' = [kernel EXCEPT !.write_sem_linked = TRUE]
            /\ write_sem' = 0
            /\ SetArena(h, "write_sem", "open")
    /\ Goto(h, "cw_open_r")
    /\ UNCHANGED <<ringVars, read_sem, hdr, writer_active, reader_count,
                   attached, attaches, stream, role, dataVars, ret>>

\* write_sem_ = sem_open(write_sem_name, O_CREAT | O_EXCL, 0644, buffer_count_)
CreateSemOpenWrite(h) ==
    /\ pc[h] = "cw_open_w"
    /\ IF kernel.write_sem_linked
       THEN /\ SetArena(h, "write_sem", "SEM_FAILED")
            /\ UNCHANGED <<kernel, write_sem>>
       ELSE /\ kernel' = [kernel EXCEPT !.write_sem_linked = TRUE]
            /\ write_sem' = buffer_count
            /\ SetArena(h, "write_sem", "open")
    /\ Goto(h, "cw_open_r")
    /\ UNCHANGED <<ringVars, read_sem, hdr, writer_active, reader_count,
                   attached, attaches, stream, role, dataVars, ret>>

\* read_sem_ = sem_open(read_sem_name, O_CREAT | O_EXCL, 0644, 0)
CreateSemOpenRead(h) ==
    /\ pc[h] = "cw_open_r"
    /\ IF kernel.read_sem_linked
       THEN /\ SetArena(h, "read_sem", "SEM_FAILED")
            /\ UNCHANGED <<kernel, read_sem>>
       ELSE /\ kernel' = [kernel EXCEPT !.read_sem_linked = TRUE]
            /\ read_sem' = 0
            /\ SetArena(h, "read_sem", "open")
    /\ Goto(h, "cw_activate")
    /\ UNCHANGED <<ringVars, write_sem, hdr, writer_active, reader_count,
                   attached, attaches, stream, role, dataVars, ret>>

\* a semaphore failed: return false; else writer_active.store(true), return true
CreateActivate(h) ==
    /\ pc[h] = "cw_activate"
    /\ IF arena[h].write_sem = "SEM_FAILED" \/ arena[h].read_sem = "SEM_FAILED"
       THEN /\ Return(h, "false")
            /\ UNCHANGED writer_active
       ELSE /\ writer_active' = TRUE
            /\ Return(h, "true")
    /\ role' = IF ret'[h] = "true" /\ role[h] = "none"
               THEN [role EXCEPT ![h] = "writer"] ELSE role
    /\ UNCHANGED <<ringVars, semVars, arena, kernel, hdr, reader_count,
                   attached, attaches, stream, stats, histVars>>

CreateWriter(h) ==
    \/ CreateCall(h)
    \/ CreateShmOpen(h)
    \/ CreateFtruncate(h)
    \/ CreateMmap(h)
    \/ InitHeaderNew(h)
    \/ InitHeaderMagic(h)
    \/ InitHeaderVersion(h)
    \/ CreateNameWrite(h)
    \/ CreateNameRead(h)
    \/ CreateSemUnlink(h)
    \/ CreateSemOpenWrite(h)
    \/ CreateSemOpenRead(h)
    \/ CreateActivate(h)

(***************************************************************************)
(* AttachReader, with AttachSharedMemory                                   *)
(***************************************************************************)
\* entry: if (is_attached_) return false
AttachCall(h) ==
    /\ pc[h] = "idle"
    /\ attaches[h] < MaxAttaches
    /\ attaches' = [attaches EXCEPT ![h] = @ + 1]
    /\ IF arena[h].is_attached
       THEN Return(h, "false")
       ELSE /\ Goto(h, "ar_shm_open")
            /\ ret' = [ret EXCEPT ![h] = "none"]
            /\ UNCHANGED local
    /\ UNCHANGED <<ringVars, semVars, arena, kernel, hdr, writer_active, reader_count,
                   attached, stream, role, stats, histVars>>

\* AttachSharedMemory: shm_open(O_RDWR); ENOENT leaves shm_fd_ = -1
AttachShmOpen(h) ==
    /\ pc[h] = "ar_shm_open"
    /\ IF kernel.shm_linked
       THEN /\ SetArena(h, "shm_fd", "open")
            /\ Goto(h, "ar_mmap")
            /\ UNCHANGED <<ret, local>>
       ELSE /\ SetArena(h, "shm_fd", "none")
            /\ Return(h, "false")
    /\ UNCHANGED <<ringVars, semVars, kernel, hdr, writer_active, reader_count,
                   attached, attaches, stream, role, stats, histVars>>

\* AttachSharedMemory: fstat, then mmap of st_size bytes.  A length of zero
\* makes mmap fail: mapped_memory_ is left MAP_FAILED, the descriptor is
\* closed but shm_fd_ keeps its number, header_ keeps its old value.
AttachMmap(h) ==
    /\ pc[h] = "ar_mmap"
    /\ IF kernel.shm_size = "total"
       THEN /\ arena' = [arena EXCEPT ![h].mapped_memory = "mapped", ![h].header = "mapped"]
            /\ Goto(h, "ar_verify")
            /\ UNCHANGED <<ret, local>>
       ELSE /\ arena' = [arena EXCEPT ![h].mapped_memory = "MAP_FAILED",
                                       ![h].shm_fd = "closed"]
            /\ Return(h, "false")
    /\ UNCHANGED <<ringVars, semVars, kernel, hdr, writer_active, reader_count,
                   attached, attaches, stream, role, stats, histVars>>

\* AttachSharedMemory: the magic / version test.  The writer stores magic
\* before version and never clears either, so reading both in one step
\* admits the same outcomes as the two loads.  On a mismatch the region is
\* unmapped and the descriptor closed; mapped_memory_, header_ and shm_fd_
\* keep their values.  On a match buffer_count_ and buffer_size_ are loaded
\* from the header, with no test of either.
AttachVerify(h) ==
    /\ pc[h] = "ar_verify"
    /\ IF hdr.magic # MAGIC_NUMBER \/ hdr.version # VERSION
       THEN /\ arena' = [arena EXCEPT ![h].mapped_memory = "dangling",
                                       ![h].header = "dangling",
                                       ![h].shm_fd = "closed"]
            /\ Return(h, "false")
            /\ UNCHANGED geom
       ELSE /\ Goto(h, "ar_open_w")
            /\ geom' = IF geom.stage \in {"created", "attached"}
                       THEN AttachedGeom(geom) ELSE geom
            /\ UNCHANGED <<arena, ret, local>>
    /\ UNCHANGED <<ringVars, semVars, kernel, hdr, writer_active, reader_count,
                   attached, attaches, stream, role, stats,
                   calls, produced, received, notifies>>

\* sem_open(name, 0): succeeds iff the name has been stored in the header
\* and exists in the namespace
SemOpen(name, linked) == IF name # "" /\ linked THEN "open" ELSE "SEM_FAILED"

\* an attach that leaves is_writer_ as the handle's earlier life set it
AttachSemOpenWrite_KeepsRole(h) ==
    /\ pc[h] = "ar_open_w"
    /\ arena' = [arena EXCEPT ![h].is_attached = TRUE,
                              ![h].write_sem = SemOpen(hdr.write_sem_name,
                                                       kernel.write_sem_linked)]
    /\ Goto(h, "ar_open_r")
    /\ UNCHANGED <<ringVars, semVars, kernel, hdr, writer_active, reader_count,
                   attached, attaches, stream, role, dataVars, ret>>

\* is_writer_ = false; is_attached_ = true;
\* write_sem_ = sem_open(header_->write_sem_name, 0)
AttachSemOpenWrite(h) ==
    /\ pc[h] = "ar_open_w"
    /\ arena' = [arena EXCEPT ![h].is_writer = FALSE, ![h].is_attached = TRUE,
                              ![h].write_sem = SemOpen(hdr.write_sem_name,
                                                       kernel.write_sem_linked)]
    /\ Goto(h, "ar_open_r")
    /\ UNCHANGED <<ringVars, semVars, kernel, hdr, writer_active, reader_count,
                   attached, attaches, stream, role, dataVars, ret>>

\* an attach that erases the name in the header once it has opened it
AttachSemOpenRead_ErasesName(h) ==
    /\ pc[h] = "ar_open_r"
    /\ SetArena(h, "read_sem", SemOpen(hdr.read_sem_name, kernel.read_sem_linked))
    /\ hdr' = [hdr EXCEPT !.read_sem_name = ""]
    /\ Goto(h, "ar_count")
    /\ UNCHANGED <<ringVars, semVars, kernel, writer_active, reader_count,
                   attached, attaches, stream, role, dataVars, ret>>

\* read_sem_ = sem_open(header_->read_sem_name, 0)
AttachSemOpenRead(h) ==
    /\ pc[h] = "ar_open_r"
    /\ SetArena(h, "read_sem", SemOpen(hdr.read_sem_name, kernel.read_sem_linked))
    /\ Goto(h, "ar_count")
    /\ UNCHANGED <<ringVars, semVars, kernel, hdr, writer_active, reader_count,
                   attached, attaches, stream, role, dataVars, ret>>

\* a semaphore failed: return false; else reader_count.fetch_add(1), return true
AttachCount(h) ==
    /\ pc[h] = "ar_count"
    /\ IF arena[h].write_sem = "SEM_FAILED" \/ arena[h].read_sem = "SEM_FAILED"
       THEN /\ Return(h, "false")
            /\ UNCHANGED <<reader_count, attached>>
       ELSE /\ reader_count' = reader_count + 1
            /\ attached' = attached \cup {h}
            /\ Return(h, "true")
    /\ role' = IF ret'[h] = "true" /\ role[h] = "none"
               THEN [role EXCEPT ![h] = "reader"] ELSE role
    /\ UNCHANGED <<ringVars, semVars, arena, kernel, hdr, writer_active,
                   attaches, stream, stats, histVars>>

AttachReader(h) ==
    \/ AttachCall(h)
    \/ AttachShmOpen(h)
    \/ AttachMmap(h)
    \/ AttachVerify(h)
    \/ AttachSemOpenWrite(h)
    \/ AttachSemOpenRead(h)
    \/ AttachCount(h)

(***************************************************************************)
(* Close and the destructor                                                *)
(*                                                                         *)
(* Close dereferences header_ without testing it, and closes semaphores    *)
(* whose pointers it never resets.  Where header_ does not point into a    *)
(* live mapping, or the semaphore has been closed before, the access is    *)
(* undefined: the step then chooses among the outcomes "crash" (the        *)
(* process that owns the handle is killed), "stray" / "garbage" (the       *)
(* access hits unrelated memory) and "lands" / "intact" (the address range *)
(* holds the region again).                                                *)
(*                                                                         *)
(* On a handle that is not the writer only the fetch_sub touches shared    *)
(* state, so its Close is one step; the writer's Close is one step per     *)
(* change to the namespace.                                                *)
(***************************************************************************)
\* the outcomes of header_->writer_active.store / reader_count.fetch_sub
DerefOutcomes(h) ==
    IF arena[h].mapped_memory = "nullptr" \/ arena[h].header = "mapped"
    THEN {"defined"}
    ELSE {"crash", "stray"} \cup
         (IF arena[h].header = "dangling"
             /\ \E g \in Handles \ {h} : arena[g].mapped_memory = "mapped"
          THEN {"lands"} ELSE {})

\* the outcomes of sem_close(sem) and, on the writer, of
\* sem_unlink(header_->..._sem_name), which reads the header after munmap
SemCloseOutcomes(h, sem) ==
    IF sem \in {"nullptr", "SEM_FAILED"} THEN {"defined"}
    ELSE IF arena[h].is_writer THEN {"crash", "garbage", "intact"}
    ELSE IF sem = "closed" THEN {"crash", "stray"}
    ELSE {"defined"}

\* the semaphore pointer after sem_close: it is not reset
SemClosed(sem) == IF sem = "open" THEN "closed" ELSE sem

\* if (mapped_memory_) { store / fetch_sub; munmap; mapped_memory_ = nullptr }
\* if (shm_fd_ != -1) { close; shm_fd_ = -1 }
\* and, on a handle that is not the writer, the rest of Close.
CloseUnmap(h, dtor) ==
    /\ pc[h] = "idle"
    /\ \E d \in DerefOutcomes(h),
          s \in (IF arena[h].is_writer THEN {"defined"}
                 ELSE SemCloseOutcomes(h, arena[h].write_sem)
                         \cup SemCloseOutcomes(h, arena[h].read_sem)) :
         IF d = "crash" \/ s = "crash"
         THEN /\ pc' = [pc EXCEPT ![h] = "crashed"]
              /\ UNCHANGED <<arena, writer_active, reader_count, attached, local, ret>>
         ELSE /\ IF arena[h].mapped_memory # "nullptr" /\ d \in {"defined", "lands"}
                 THEN IF arena[h].is_writer
                      THEN writer_active' = FALSE /\ UNCHANGED reader_count
                      ELSE reader_count' = reader_count - 1 /\ UNCHANGED writer_active
                 ELSE UNCHANGED <<writer_active, reader_count>>
              /\ attached' = attached \ {h}
              /\ IF arena[h].is_writer
                 THEN /\ arena' = [arena EXCEPT
                                     ![h].mapped_memory = "nullptr",
                                     ![h].header = IF @ = "mapped" THEN "dangling" ELSE @,
                                     ![h].shm_fd = "none"]
                      /\ pc' = [pc EXCEPT ![h] = "cl_sem_w"]
                      /\ local' = [local EXCEPT ![h] = [NoLocal EXCEPT !.dtor = dtor]]
                      /\ ret' = [ret EXCEPT ![h] = "none"]
                 ELSE /\ arena' = [arena EXCEPT
                                     ![h].mapped_memory = "nullptr",
                                     ![h].header = IF @ = "mapped" THEN "dangling" ELSE @,
                                     ![h].shm_fd = "none",
                                     ![h].write_sem = SemClosed(@),
                                     ![h].read_sem = SemClosed(@),
                                     ![h].is_attached = FALSE]
                      /\ pc' = [pc EXCEPT ![h] = IF dtor THEN "destroyed" ELSE "idle"]
                      /\ local' = [local EXCEPT ![h] = NoLocal]
                      /\ ret' = [ret EXCEPT ![h] = "closed"]
    /\ UNCHANGED <<ringVars, semVars, kernel, hdr, attaches, stream, role, stats, histVars>>

\* writer: if (write_sem_ && write_sem_ != SEM_FAILED) { sem_close; sem_unlink }
CloseSemWrite(h) ==
    /\ pc[h] = "cl_sem_w"
    /\ \E o \in SemCloseOutcomes(h, arena[h].write_sem) :
         IF o = "crash"
         THEN /\ pc' = [pc EXCEPT ![h] = "crashed"]
              /\ UNCHANGED <<arena, kernel>>
         ELSE /\ SetArena(h, "write_sem", SemClosed(arena[h].write_sem))
              /\ kernel' = IF o = "intact"
                           THEN [kernel EXCEPT !.write_sem_linked = FALSE] ELSE kernel
              /\ pc' = [pc EXCEPT ![h] = "cl_sem_r"]
    /\ UNCHANGED <<ringVars, semVars, hdr, writer_active, reader_count, attached,
                   attaches, stream, role, dataVars, ret>>

\* writer: if (read_sem_ && read_sem_ != SEM_FAILED) { sem_close; sem_unlink }
CloseSemRead(h) ==
    /\ pc[h] = "cl_sem_r"
    /\ \E o \in SemCloseOutcomes(h, arena[h].read_sem) :
         IF o = "crash"
         THEN /\ pc' = [pc EXCEPT ![h] = "crashed"]
              /\ UNCHANGED <<arena, kernel>>
         ELSE /\ SetArena(h, "read_sem", SemClosed(arena[h].read_sem))
              /\ kernel' = IF o = "intact"
                           THEN [kernel EXCEPT !.read_sem_linked = FALSE] ELSE kernel
              /\ pc' = [pc EXCEPT ![h] = "cl_unlink"]
    /\ UNCHANGED <<ringVars, semVars, hdr, writer_active, reader_count, attached,
                   attaches, stream, role, dataVars, ret>>

\* writer: shm_unlink; is_attached_ = false; the destructor's handle is gone
\* afterwards
CloseShmUnlink(h) ==
    /\ pc[h] = "cl_unlink"
    /\ kernel' = [kernel EXCEPT !.shm_linked = FALSE]
    /\ SetArena(h, "is_attached", FALSE)
    /\ IF local[h].dtor
       THEN /\ pc' = [pc EXCEPT ![h] = "destroyed"]
            /\ local' = [local EXCEPT ![h] = NoLocal]
            /\ UNCHANGED ret
       ELSE Return(h, "closed")
    /\ UNCHANGED <<ringVars, semVars, hdr, writer_active, reader_count, attached,
                   attaches, stream, role, stats, histVars>>

Close(h) ==
    \/ CloseUnmap(h, FALSE)
    \/ CloseSemWrite(h)
    \/ CloseSemRead(h)
    \/ CloseShmUnlink(h)

\* ~SharedMemoryArena() { Close(); }
Destructor(h) == CloseUnmap(h, TRUE)

Next ==
    \/ WriteRecordBatch(Writer, BoundarySizes)
    \/ \E h \in Readers : ReadRecordBatch(h)

NextSerial ==
    \/ WriteRecordBatch(Writer, Sizes)
    \/ ReadRecordBatch(SerialReader)

\* one writer, NumReaders readers consuming concurrently
Spec == Init /\ [][Next]_vars

\* one writer, one reader whose calls follow one another
SpecSerial == InitSerial /\ [][NextSerial]_vars

\* one writer whose batches fill the slot or exceed it by a byte, one reader
NextSerialFair ==
    \/ WriteRecordBatch(Writer, BoundarySizes)
    \/ ReadRecordBatch(SerialReader)

\* one writer and one reader under the scheduler's fairness: a process that
\* can take a step eventually takes one, and the callers keep calling
SpecSerialFair ==
    /\ InitSerial
    /\ [][NextSerialFair]_vars
    /\ WF_vars(WriteRecordBatch(Writer, BoundarySizes))
    /\ WF_vars(ReadRecordBatch(SerialReader))

\* attaching, closing and destroying the handles, from their construction,
\* while the name is bound to its first object
NextLife ==
    \/ FirstGeneration /\ CreateWriter(Writer)
    \/ \E h \in Readers : AttachReader(h)
    \/ \E h \in Handles : Close(h)
    \/ \E h \in Handles : Destructor(h)

SpecLife == InitConstructed /\ [][NextLife]_vars

\* the two handles of a process that uses each of them in either role
RoleHandles == {Writer, SerialReader}

\* either handle creating, attaching and closing, any number of times, until
\* it is destroyed, the name being bound to one object after another
NextRoles ==
    \/ \E h \in RoleHandles : CreateWriter(h)
    \/ \E h \in RoleHandles : AttachReader(h)
    \/ \E h \in RoleHandles : Close(h)
    \/ \E h \in RoleHandles : Destructor(h)

SpecRoles == InitConstructed /\ [][NextRoles]_vars

\* an attached writer and an attached reader, each handle being used for
\* both WriteRecordBatch and ReadRecordBatch
NextRoleCheck ==
    \/ \E h \in RoleHandles : WriteRecordBatch(h, BoundarySizes)
    \/ \E h \in RoleHandles : ReadRecordBatch(h)

SpecRoleCheck == InitSerial /\ [][NextRoleCheck]_vars

\* one writer and one reader that probes with WaitForData before it reads
NextProbe ==
    \/ WriteRecordBatch(Writer, BoundarySizes)
    \/ ReadRecordBatch(SerialReader)
    \/ WaitForData(SerialReader)

SpecProbe == InitSerial /\ [][NextProbe]_vars

\* one writer and one reader that probes and reads, either of which may
\* call NotifyDataReady
NextNotify ==
    \/ WriteRecordBatch(Writer, BoundarySizes)
    \/ ReadRecordBatch(SerialReader)
    \/ WaitForData(SerialReader)
    \/ \E h \in RoleHandles : NotifyDataReady(h)

SpecNotify == InitSerial /\ [][NextNotify]_vars

\* a producer that attaches, and a handle that attaches as reader, closes,
\* and calls WaitForData and NotifyDataReady whether it is attached or not
NextDetached ==
    \/ FirstGeneration /\ CreateWriter(Writer)
    \/ AttachReader(SerialReader)
    \/ CloseUnmap(SerialReader, FALSE)
    \/ WaitForData(SerialReader)
    \/ NotifyDataReady(SerialReader)

SpecDetached == InitConstructed /\ [][NextDetached]_vars

\* a writer that streams through Writer, finishes, closes or dies, and a
\* reader that iterates with Reader::Iterator
NextStream ==
    \/ WriteChunk(Writer, BoundarySizes)
    \/ Finish(Writer)
    \/ Close(Writer)
    \/ ProcessExit(Writer)
    \/ LoadNext(SerialReader)

SpecStream == InitSerial /\ [][NextStream]_vars

\* the state after CreateWriter has returned true, no reader being attached
InitWriterOnly == InitAttached({})

\* a writer that writes and closes, and a reader that attaches at any time,
\* before or after the writer's Close, and reads
NextHandoff ==
    \/ WriteRecordBatch(Writer, BoundarySizes)
    \/ Close(Writer)
    \/ AttachReader(SerialReader)
    \/ ReadRecordBatch(SerialReader)

SpecHandoff == InitWriterOnly /\ [][NextHandoff]_vars

(***************************************************************************)
(* The state after CreateWriter on the writer handle has returned false    *)
(* because a sem_open failed: the region is created and initialised,       *)
(* is_writer_ and is_attached_ are set, the pointer of each failed         *)
(* semaphore is SEM_FAILED, and writer_active has not been stored.         *)
(***************************************************************************)
InitCreateFailed ==
    \E failed \in (SUBSET {"write_sem", "read_sem"}) \ {{}} :
        /\ kernel = [shm_linked |-> TRUE, shm_size |-> "total",
                     write_sem_linked |-> "write_sem" \notin failed,
                     read_sem_linked |-> "read_sem" \notin failed]
        /\ hdr = [magic |-> MAGIC_NUMBER, version |-> VERSION,
                  write_sem_name |-> "/qads_w", read_sem_name |-> "/qads_r"]
        /\ writer_active = FALSE
        /\ reader_count = 0
        /\ attached = {}
        /\ attaches = [h \in Handles |-> 0]
        /\ stream = [h \in Handles |-> "none"]
        /\ role = [h \in Handles |-> "none"]
        /\ write_sequence = 0
        /\ read_sequence = 0
        /\ data_size = [i \in Slots |-> 0]
        /\ ready = [i \in Slots |-> FALSE]
        /\ timestamp = [i \in Slots |-> 0]
        /\ buffers = [i \in Slots |-> [j \in 1..buffer_size |-> ZeroByte]]
        /\ write_sem = IF "write_sem" \in failed THEN 0 ELSE buffer_count
        /\ read_sem = 0
        /\ arena = [h \in Handles |->
                      IF h = Writer
                      THEN [MappedArena(TRUE) EXCEPT
                              !.write_sem = IF "write_sem" \in failed
                                            THEN "SEM_FAILED" ELSE "open",
                              !.read_sem = IF "read_sem" \in failed
                                           THEN "SEM_FAILED" ELSE "open"]
                      ELSE NewArena]
        /\ stats = [h \in Handles |-> NoStats]
        /\ pc = [h \in Handles |-> "idle"]
        /\ local = [h \in Handles |-> NoLocal]
        /\ ret = [h \in Handles |-> IF h = Writer THEN "false" ELSE "none"]
        /\ calls = 0
        /\ notifies = 0
        /\ geom = NoGeom
        /\ produced = <<>>
        /\ received = [h \in Readers |-> <<>>]

\* the handle is used as a writer all the same, and closed
NextCreateFailed ==
    \/ WriteRecordBatch(Writer, Sizes)
    \/ Close(Writer)

SpecCreateFailed == InitCreateFailed /\ [][NextCreateFailed]_vars

\* the size arguments: whole cache lines and the byte before each
TotalSizes ==
    {0} \cup {k * CACHE_LINE_SIZE : k \in 1..MaxRegionLines}
        \cup {k * CACHE_LINE_SIZE - 1 : k \in 1..MaxRegionLines}
BufferCounts == 1..MaxSlots

\* a producer handle constructed with a size and a buffer_count
InitGeometry ==
    \E size \in TotalSizes, count \in BufferCounts :
        InitConstructedAs([stage |-> "constructed", writer |-> Constructor(size, count)])

\* CreateWriter, as far as the geometry goes: ftruncate and mmap of
\* total_size_ bytes (mmap of length 0 fails), then InitializeHeader
CreateGeometry ==
    /\ geom.stage = "constructed"
    /\ geom' = IF geom.writer.total_size_ = 0
               THEN [geom EXCEPT !.stage = "create_failed"]
               ELSE [stage |-> "created", writer |-> geom.writer,
                     st_size |-> geom.writer.total_size_,
                     header |-> HeaderGeometry(geom.writer)]
    /\ UNCHANGED <<ringVars, semVars, handleVars, stats, pc, local, ret,
                   calls, produced, received, notifies>>

\* AttachSharedMemory on a reader handle: total_size_ = st.st_size, mmap,
\* the test of magic and version (which holds: the producer has finished),
\* then buffer_count_ and buffer_size_ are taken from the header
AttachGeometry ==
    /\ geom.stage = "created"
    /\ geom' = AttachedGeom(geom)
    /\ UNCHANGED <<ringVars, semVars, handleVars, stats, pc, local, ret,
                   calls, produced, received, notifies>>

NextStale ==
    \/ CreateWriter(Writer)
    \/ AttachReader(SerialReader)
    \/ CloseUnmap(SerialReader, FALSE)
SpecStale == InitStale /\ [][NextStale]_vars

\* one writer, one reader that consumes, and the other attached handles
\* probing with WaitForData
NextPeek ==
    \/ WriteRecordBatch(Writer, FullSizes)
    \/ ReadRecordBatch(SerialReader)
    \/ \E h \in Readers \ {SerialReader} : WaitForData(h)
SpecPeek == Init /\ [][NextPeek]_vars

NextGeometry ==
    \/ CreateGeometry
    \/ AttachGeometry

SpecGeometry == InitGeometry /\ [][NextGeometry]_vars

\* the geometry after CreateWriter on a handle constructed with the largest
\* size and one slot
CreatedGeom ==
    LET m == Constructor(MaxRegionLines * CACHE_LINE_SIZE, 1)
    IN  [stage |-> "created", writer |-> m, st_size |-> m.total_size_,
         header |-> HeaderGeometry(m)]

\* an attached producer that writes, and a handle that attaches as reader,
\* reads, probes, notifies and closes
NextFrame ==
    \/ WriteRecordBatch(Writer, FullSizes)
    \/ AttachReader(SerialReader)
    \/ ReadRecordBatch(SerialReader)
    \/ WaitForData(SerialReader)
    \/ NotifyDataReady(SerialReader)
    \/ CloseUnmap(SerialReader, FALSE)

SpecFrame == InitAttachedAs({}, CreatedGeom) /\ [][NextFrame]_vars

(***************************************************************************)
(* Properties                                                              *)
(***************************************************************************)
Range(s) == {s[i] : i \in DOMAIN s}
IsPrefix(s, t) == Len(s) <= Len(t) /\ \A i \in DOMAIN s : s[i] = t[i]
AllIdle == \A h \in Handles : pc[h] = "idle"
\* no call is in progress and every ready token has been taken
Drained == AllIdle /\ read_sem = 0
\* the slot writes of WriteRecordBatch
WriterTouchesSlot ==
    pc[Writer] \in {"w_serialize", "w_store_size", "w_store_time", "w_store_ready"}

\* C1: in every reachable state of one writer and several readers,
\* 0 <= write_sequence - read_sequence <= buffer_count.
C1_SequenceWindow ==
    /\ 0 <= write_sequence - read_sequence
    /\ write_sequence - read_sequence <= buffer_count

\* C2: with several readers every written batch is returned by exactly one
\* ReadRecordBatch call: no batch is returned twice, every batch returned was
\* written, and once the ring is drained every written batch was returned.
C2_ExactlyOnceDelivery ==
    /\ \A h1, h2 \in Readers :
         \A i \in DOMAIN received[h1], j \in DOMAIN received[h2] :
            (h1 # h2 \/ i # j) => received[h1][i] # received[h2][j]
    /\ \A h \in Readers : Range(received[h]) \subseteq Range(produced)
    /\ Drained => Range(produced) \subseteq UNION {Range(received[h]) : h \in Readers}

C4_FailedWriteReturnsToken ==
    [][(pc[Writer] = "w_serialize" /\ pc'[Writer] = "idle" /\ ret'[Writer] = "ioerror")
          => write_sem' = write_sem + 1]_vars

\* C5: no step of a WriteRecordBatch whose batch does not fit in buffer_size
\* changes write_sequence, a ready flag, a data_size or the ready semaphore,
\* and the call fails; a batch of exactly buffer_size bytes is serialized and
\* the call goes on to publish it.
C5_OversizeWriteDoesNotPublish ==
    [][LET b == IF pc[Writer] = "idle" THEN local'[Writer].batch ELSE local[Writer].batch
       IN  pc'[Writer] # pc[Writer] =>
             /\ b[2] > buffer_size =>
                   /\ UNCHANGED <<write_sequence, ready, data_size, read_sem, produced>>
                   /\ pc'[Writer] = "idle" => ret'[Writer] = "ioerror"
             /\ (b[2] = buffer_size /\ pc[Writer] = "w_serialize") =>
                   /\ pc'[Writer] = "w_store_size"
                   /\ local'[Writer].size = buffer_size
             /\ (b[2] = buffer_size /\ pc'[Writer] = "idle") =>
                   /\ ret'[Writer] = "ok"
                   /\ write_sequence = Len(produced')]_vars

C5_Witness ==
    /\ ret[Writer] = "ioerror"
    /\ \E i \in DOMAIN produced : produced[i][2] = buffer_size

\* C6: while buffer_count batches are published and not consumed (every slot
\* is ready), the free semaphore is empty, so that a further WriteRecordBatch
\* waits for a read to post it, and the writer is not writing to any slot.
C6_FullRingBlocksWriter ==
    (\A i \in Slots : ready[i]) => (write_sem = 0 /\ ~WriterTouchesSlot)

\* C7: under fair scheduling, with one writer and one reader that keeps
\* calling ReadRecordBatch, a WriteRecordBatch blocked on a full ring
\* returns, and every batch written is returned by a read.
C7_BlockedWriterProceeds ==
    /\ (pc[Writer] = "w_sem_wait" /\ write_sequence - read_sequence = buffer_count)
          ~> (pc[Writer] = "idle")
    /\ \A k \in 1..MaxBatches :
          (\E i \in DOMAIN produced : produced[i][1] = k)
             ~> (\E i \in DOMAIN received[SerialReader] : received[SerialReader][i][1] = k)

C7_Witness ==
    /\ pc[Writer] = "w_sem_wait"
    /\ write_sequence - read_sequence = buffer_count
    /\ write_sem = 0

\* C8: with several readers, the batches one reader receives from its
\* successive calls are a subsequence of the order in which they were written.
C8_PerReaderPublishOrder ==
    \A h \in Readers :
       \A i, j \in DOMAIN received[h] : i < j => received[h][i][1] < received[h][j][1]


\* C9: reader_count is never negative, whatever sequence of AttachReader
\* attempts (returning true or false), Close calls and destructions the
\* handles make.
C9_ReaderCountNonNegative == reader_count >= 0

\* C10: reader_count equals the number of readers whose AttachReader has
\* returned true and that have not called Close since; in particular it is
\* 0 once every such reader has called Close.
C10_ReaderCountIsAttached == reader_count = Cardinality(attached)

\* the last call on the handle was a Close (or the destructor) that returned
Closed(h) == (pc[h] = "idle" /\ ret[h] = "closed") \/ pc[h] = "destroyed"

\* C11: once the writer's Close has returned, the region name and both
\* semaphore names are gone from the namespace (so that CreateWriter under
\* the same name finds nothing in its way), whether or not readers still map
\* the region.
C11_WriterCloseUnlinksNames ==
    (arena[Writer].is_writer /\ Closed(Writer)) =>
        (~kernel.shm_linked /\ ~kernel.write_sem_linked /\ ~kernel.read_sem_linked)

\* CreateWriter returned true on the handle and Close has not been called
\* on it since
ProducerAttached(h) ==
    /\ pc[h] = "idle"
    /\ arena[h].is_writer /\ arena[h].is_attached
    /\ arena[h].mapped_memory = "mapped"
    /\ arena[h].write_sem = "open" /\ arena[h].read_sem = "open"

\* C12: while a producer is attached, every other handle that reaches the
\* exclusive create of CreateWriter finds the name bound (so that shm_open
\* fails with EEXIST and CreateWriter returns false before it touches the
\* header or a semaphore).
C12_SecondCreateFindsName ==
    \A g \in Handles : \A h \in Handles \ {g} :
       (ProducerAttached(g) /\ pc[h] = "cw_shm_open") => kernel.shm_linked

\* the call returned the role error at once, the ring and both semaphores
\* being as they were
WrongRoleReturn(h) ==
    /\ pc'[h] = "idle"
    /\ ret'[h] = "invalid"
    /\ UNCHANGED <<ringVars, semVars>>

\* C13: WriteRecordBatch on an attached reader's handle and ReadRecordBatch
\* on an attached writer's handle return Status::Invalid in their first
\* step: no semaphore is waited on or posted, and write_sequence,
\* read_sequence and every slot (data_size, ready, timestamp, bytes) are
\* unchanged.
C13_WrongRoleNoEffect ==
    [][\A h \in Handles :
         /\ (WriteCall(h, BoundarySizes) /\ arena[h].is_attached /\ ~arena[h].is_writer)
               => WrongRoleReturn(h)
         /\ (ReadCall(h) /\ arena[h].is_attached /\ arena[h].is_writer)
               => WrongRoleReturn(h)]_vars

\* both wrong-role calls have returned while batches were in the ring
C13_Witness ==
    /\ ret[SerialReader] = "invalid" /\ pc[SerialReader] = "idle"
    /\ ret[Writer] = "invalid" /\ pc[Writer] = "idle"
    /\ read_sem > 0
    /\ received[SerialReader] # <<>>

\* AttachReader returned true on the handle and Close has not been called
\* on it since
ConsumerAttached(h) ==
    /\ pc[h] = "idle"
    /\ h \in attached
    /\ arena[h].is_attached /\ ~arena[h].is_writer

\* C14: a handle keeps the role of its first successful attach: one on
\* which CreateWriter returned true is never afterwards attached as a
\* reader, and one on which AttachReader returned true is never afterwards
\* attached as the writer, whatever CreateWriter, AttachReader and Close
\* calls are made on it.
C14_RoleFixedByFirstAttach ==
    \A h \in Handles :
       /\ role[h] = "writer" => ~ConsumerAttached(h)
       /\ role[h] = "reader" => ~ProducerAttached(h)

\* C15: a timed ReadRecordBatch that finds no ready token returns the
\* timeout error; the step adds one to that handle's wait_timeouts and
\* changes no other counter of any handle, and write_sequence,
\* read_sequence, every slot and both semaphore counts are as before.  (The
\* token of a batch published afterwards is therefore still there for the
\* next ReadRecordBatch: the witness is such a run.)
C15_TimeoutOnlyCounts ==
    [][\A h \in Readers :
         ReadTimeout(h) =>
            /\ read_sem = 0
            /\ pc'[h] = "idle" /\ ret'[h] = "timeout"
            /\ stats' = [stats EXCEPT ![h].wait_timeouts = @ + 1]
            /\ UNCHANGED <<ringVars, semVars>>]_vars

\* the reader timed out on the empty ring and its one later call returned
\* the batch published after the timeout
C15_Witness ==
    /\ stats[SerialReader].wait_timeouts = 1
    /\ pc[SerialReader] = "idle" /\ ret[SerialReader] = "ok"
    /\ Len(received[SerialReader]) = 1
    /\ received[SerialReader] = produced

\* C16: WaitForData gives back the ready token it took: its wait takes one
\* token, its sem_post returns one, and no step of it changes the ring, the
\* free count or a counter, so a probe that returned OK leaves a token
\* behind; and with no second reader the ReadRecordBatch called next takes
\* that token and returns a batch, never the timeout error.
C16_ProbeLeavesToken ==
    [][\A h \in Readers :
         /\ WaitSemWait(h) =>
               read_sem' = read_sem - 1 /\ UNCHANGED <<ringVars, write_sem, stats>>
         /\ WaitPost(h) =>
               read_sem' = read_sem + 1 /\ UNCHANGED <<ringVars, write_sem, stats>>
         /\ (pc'[h] = "idle" /\ ret'[h] = "wait_ok") =>
               (read_sem' >= 1 /\ ready'[GetCurrentReadBuffer'])
         /\ (local[h].probed /\ pc[h] # "idle" /\ pc'[h] = "idle") =>
               ret'[h] = "ok"]_vars

\* the probe returned OK and the timed read called next returned a batch
C16_Witness ==
    /\ pc[SerialReader] = "r_post"
    /\ local[SerialReader].probed /\ local[SerialReader].timed
    /\ local[SerialReader].result # NoBatch

\* C17: the iterator ends the stream when its timed read times out and
\* writer_active is false, and does not end it when the timed read times
\* out while writer_active is true.
C17_EndOnlyWhenWriterInactive ==
    [][\A h \in Readers :
         (LoadNextReturn(h) /\ ret[h] = "timeout") =>
            (stream'[h] = "end" <=> ~writer_active)]_vars

\* C18: Writer::Finish stores false to writer_active and changes nothing
\* else in the region: no slot, sequence number or semaphore count changes.
C18_FinishClearsWriterActive ==
    [][Finish(Writer) =>
          (~writer_active' /\ UNCHANGED <<ringVars, semVars, hdr, reader_count>>)]_vars

\* C19: when the writer has published batches and its process has ended
\* without Close, a reader that has received every published batch and
\* got the timeout error from its next timed read finds writer_active
\* false, and its iterator is at the end of the stream.
C19_WriterDeathIsVisible ==
    (/\ pc[Writer] = "exited"
     /\ pc[SerialReader] = "idle" /\ ret[SerialReader] = "timeout"
     /\ stream[SerialReader] # "loading"
     /\ produced # <<>> /\ received[SerialReader] = produced)
    => (~writer_active /\ stream[SerialReader] = "end")

\* C20: Close, and the destructor, of a handle on which AttachReader
\* returned true is over in the step that unmaps the region, whatever was
\* called on the handle before, and leaves the region name and both
\* semaphore names as they were: none of the unlink steps of Close is taken
\* for it.
C20_ReaderCloseKeepsNames ==
    [][\A h \in Handles :
         (h \in attached /\ (Close(h) \/ Destructor(h))) =>
            /\ kernel' = kernel
            /\ pc'[h] \in {"idle", "destroyed", "crashed"}]_vars

\* a handle that was the writer of an earlier region and then attached as
\* a reader has closed, and the names of the region it read are all there
C20_Witness ==
    \E h \in Handles :
       /\ role[h] = "writer"
       /\ ~arena[h].is_writer
       /\ Closed(h)
       /\ kernel.shm_linked /\ kernel.write_sem_linked /\ kernel.read_sem_linked

\* the step returns r from a call of handle h that is at one of the labels L
Returns(h, L, r) == pc[h] \in L /\ pc'[h] = "idle" /\ ret'[h] = r

WriteLabels ==
    {"w_sem_wait", "w_serialize", "w_store_size", "w_store_time", "w_store_ready",
     "w_inc_seq", "w_post"}

ReadLabels ==
    {"r_sem_wait", "r_load_seq", "r_check_ready", "r_load_size", "r_deserialize",
     "r_clear_ready", "r_inc_seq", "r_post"}

\* C21: in every step and for every handle h, writes_count grows by one
\* exactly when a WriteRecordBatch of h returns OK, reads_count by one
\* exactly when a ReadRecordBatch of h returns a batch, wait_timeouts by one
\* exactly when a ReadRecordBatch of h returns the timeout error; the byte
\* counters grow, by the size of the frame, in the successful returns only;
\* so a failed call and a step of another handle leave h's counters alone.
C21_StatsCountOwnOutcomes ==
    [][\A h \in Handles :
         LET wrote == Returns(h, WriteLabels, "ok")
             read == Returns(h, ReadLabels, "ok")
             timedOut == Returns(h, ReadLabels, "timeout")
         IN /\ stats'[h].writes_count =
                  stats[h].writes_count + (IF wrote THEN 1 ELSE 0)
            /\ stats'[h].reads_count =
                  stats[h].reads_count + (IF read THEN 1 ELSE 0)
            /\ stats'[h].wait_timeouts =
                  stats[h].wait_timeouts + (IF timedOut THEN 1 ELSE 0)
            /\ stats'[h].bytes_written =
                  stats[h].bytes_written + (IF wrote THEN local[h].size ELSE 0)
            /\ stats'[h].bytes_read =
                  stats[h].bytes_read + (IF read THEN local[h].size ELSE 0)]_vars

\* a write succeeded and the writer's last one failed in the codec, the
\* reader got a batch and timed out once, and its last call was a
\* WriteRecordBatch on its own handle
C21_Witness ==
    /\ stats[Writer].writes_count > 0
    /\ pc[Writer] = "idle" /\ ret[Writer] = "ioerror"
    /\ stats[SerialReader].reads_count > 0 /\ stats[SerialReader].wait_timeouts = 1
    /\ stats[SerialReader].writes_count = 0
    /\ pc[SerialReader] = "idle" /\ ret[SerialReader] = "invalid"

\* C22: an AttachReader that fails the magic / version test leaves
\* reader_count as it was and the handle without a mapping, and the Close
\* or destructor that follows on that handle leaves reader_count as it was.
C22_FailedVerifyLeavesNothing ==
    [][\A h \in Handles :
         /\ (AttachVerify(h) /\ pc'[h] = "idle") =>
               /\ ret'[h] = "false"
               /\ reader_count' = reader_count
               /\ arena'[h].mapped_memory # "mapped"
         /\ (arena[h].mapped_memory = "dangling" /\ (Close(h) \/ Destructor(h))) =>
               reader_count' = reader_count]_vars

\* C23: once the writer has written batches and its Close has returned, the
\* shm_open of an AttachReader under the same name still finds the region
\* (so that the reader can attach and read the batches).
C23_RegionOutlivesWriterClose ==
    [][(/\ produced # <<>>
        /\ arena[Writer].is_writer /\ Closed(Writer)
        /\ AttachShmOpen(SerialReader))
       => pc'[SerialReader] = "ar_mmap"]_vars

\* C24: with one writer and any number of readers, the writer's stores
\* into a slot (payload bytes, data_size, timestamp) happen only while the
\* slot's ready flag is false, and a reader's loads from a slot (data_size,
\* payload decoding) only while its ready flag is true.
C24_SlotAccessFollowsReady ==
    [][/\ WriteSerialize(Writer) => ~ready[GetNextWriteBuffer]
       /\ (WriteStoreSize(Writer) \/ WriteStoreTime(Writer))
             => ~ready[local[Writer].idx]
       /\ \A h \in Readers :
             (ReadLoadSize(h) \/ ReadDeserialize(h)) => ready[local[h].idx]]_vars

\* C25: in every reachable state a slot whose ready flag is set holds a
\* data_size between 1 and buffer_size.
C25_ReadySlotHasSize ==
    \A i \in Slots : ready[i] => (0 < data_size[i] /\ data_size[i] <= buffer_size)

C25_Witness ==
    \E i, j \in Slots :
        /\ ready[i] /\ data_size[i] = buffer_size
        /\ ~ready[j] /\ data_size[j] > 0
        /\ pc[Writer] = "w_store_time"

\* C26: with one producer and any number of consumers, a consume that has
\* taken a ready token never takes the slot-not-ready branch.
C26_NotReadyBranchNeverTaken ==
    [][\A h \in Readers : ReadCheckReady(h) => ret'[h] # "not_ready"]_vars

\* the not-ready return of ReadRecordBatch on handle h
NotReadyReturn(h) == ReadCheckReady(h) /\ ~ready[local[h].idx]

\* C27: a consume that holds a ready token and finds its slot not ready
\* posts the free semaphore once and returns an error; read_sequence, the
\* slot's ready flag and data_size, and the handle's reads_count and
\* bytes_read keep their values.
C27_NotReadyOnlyReturnsToken ==
    [][\A h \in Readers :
          NotReadyReturn(h) =>
              /\ write_sem' = write_sem + 1
              /\ read_sem' = read_sem
              /\ pc'[h] = "idle" /\ ret'[h] = "not_ready"
              /\ read_sequence' = read_sequence
              /\ ready' = ready /\ data_size' = data_size
              /\ stats'[h] = stats[h]]_vars

\* a consume returned through the not-ready branch after earlier consumes
\* on the same handle had succeeded
C27_Witness ==
    /\ ret[SerialReader] = "not_ready"
    /\ stats[SerialReader].reads_count > 0
    /\ read_sequence > 0

\* the points of a call between taking a semaphore token and giving one back
HoldsToken(h) ==
    pc[h] \in {"w_serialize", "w_store_size", "w_store_time", "w_store_ready",
               "w_inc_seq", "w_post",
               "r_load_seq", "r_check_ready", "r_load_size", "r_deserialize",
               "r_clear_ready", "r_inc_seq", "r_post",
               "wd_post"}
HeldTokens == Cardinality({h \in Handles : HoldsToken(h)})

\* C28: in every reachable state the free semaphore holds at most
\* buffer_count tokens, and the free tokens, the ready tokens and the tokens
\* held by calls in progress add up to buffer_count.
C28_TokenConservation ==
    /\ write_sem <= buffer_count
    /\ write_sem + read_sem + HeldTokens = buffer_count

\* a step of a Close (or of the destructor) on a handle that an earlier
\* Close has already detached
SecondCloseStep(h) ==
    /\ Close(h) \/ Destructor(h)
    /\ \/ pc[h] = "idle" /\ ret[h] = "closed"
       \/ pc[h] \in {"cl_sem_w", "cl_sem_r", "cl_unlink"} /\ ~arena[h].is_attached

\* C29: a second Close on a handle changes nothing that is shared: the
\* names bound in the namespace, the header, writer_active, reader_count,
\* the ring and both semaphores stay as they are, also when another handle
\* has become the producer under the name since the first Close.
C29_SecondCloseChangesNothing ==
    [][\A h \in Handles :
          SecondCloseStep(h) =>
              UNCHANGED <<kernel, hdr, writer_active, reader_count, ringVars, semVars>>]_vars

\* C30: no ready flag goes from false to true in a state where writer_active
\* is false, whatever CreateWriter returned on the handle that publishes.
C30_NoPublishWhileInactive ==
    [][\A i \in Slots : (~ready[i] /\ ready'[i]) => writer_active]_vars

\* every slot the header describes lies inside the first `size` bytes
SlotsInside(hd, size) == hd.buffers_offset + hd.buffer_count * hd.buffer_size <= size

\* C31: a reader's attach succeeds only on a region whose header describes
\* slots inside the mapping and whose total_size is the size of the object.
C31_AttachChecksGeometry ==
    geom.stage = "attached" =>
        /\ SlotsInside(geom.header, geom.header.total_size)
        /\ geom.header.total_size = geom.st_size

\* the byte spans of two slots, as the paths that use them compute them,
\* have a byte in common
SlotsOverlap(hd, i, j) ==
    /\ BufferOffset(hd, i) < BufferOffset(hd, j) + hd.buffer_size
    /\ BufferOffset(hd, j) < BufferOffset(hd, i) + hd.buffer_size

\* C32: when CreateWriter has gone through, the header lies before the
\* slots, every slot lies inside total_size, buffer_size is positive and
\* distinct slots do not overlap.
C32_GeometryIsSound ==
    geom.stage = "created" =>
        /\ geom.header.header_size <= geom.header.buffers_offset
        /\ SlotsInside(geom.header, geom.header.total_size)
        /\ geom.header.buffer_size > 0
        /\ \A i, j \in 0..(geom.header.buffer_count - 1) :
               i # j => ~SlotsOverlap(geom.header, i, j)

\* C39: WaitForData and NotifyDataReady on a handle that is not attached
\* (never attached, attach failed, or closed) take no ready token and post
\* none: the ready semaphore of the live region keeps its count.
C39_DetachedCallsLeaveTokens ==
    [][\A h \in Readers :
          (h \notin attached /\ (WaitForData(h) \/ NotifyDataReady(h)))
              => read_sem' = read_sem]_vars

\* C33: no WriteRecordBatch, ReadRecordBatch, WaitForData, NotifyDataReady,
\* AttachReader or Close of a reader changes magic, version, the semaphore
\* names or a geometry field of the header the producer initialised.
C33_HeaderIsWrittenOnce ==
    [][/\ hdr' = hdr
       /\ geom'.header = geom.header]_vars

\* the reader has attached, read a batch and closed, and a notify was made
C33_Witness ==
    /\ ret[SerialReader] = "closed"
    /\ stats[SerialReader].reads_count > 0
    /\ notifies > 0
    /\ geom.stage = "attached"
    /\ hdr.magic = MAGIC_NUMBER /\ hdr.read_sem_name = "/qads_r"

\* C35: an AttachReader that returns false because a semaphore could not be
\* opened leaves the handle unattached (so that ReadRecordBatch on it is
\* refused and AttachReader can be called again) and leaves reader_count
\* and writer_active as they were.
C35_FailedAttachLeavesUnattached ==
    [][\A h \in Readers :
          (AttachCount(h) /\ ret'[h] = "false") =>
              /\ ~arena'[h].is_attached
              /\ UNCHANGED <<reader_count, writer_active>>]_vars


\* C34: the step on which CreateWriter returns true leaves buffer_count
\* tokens in the free semaphore and none in the ready semaphore, whatever
\* counts the semaphores of a dead producer held under the same names
C34_FreshSemaphoresAfterCreate ==
    [][(CreateActivate(Writer) /\ ret'[Writer] = "true")
          => (write_sem' = buffer_count /\ read_sem' = 0)]_vars
\* the producer has attached over semaphores that a dead producer had left
\* with other counts
C34_Witness ==
    /\ pc[Writer] = "idle" /\ ret[Writer] = "true"
    /\ arena[Writer].write_sem = "open" /\ arena[Writer].read_sem = "open"
    /\ writer_active
    /\ write_sem = buffer_count /\ read_sem = 0


\* C36: when AttachReader returns true on a region that a producer has
\* created and mapped, that producer has created both semaphores, so the
\* semaphores the reader opened are the producer's
C36_ReaderHoldsProducerSemaphores ==
    [][(/\ AttachCount(SerialReader)
        /\ ret'[SerialReader] = "true"
        /\ arena[Writer].mapped_memory = "mapped")
          => (/\ arena[Writer].write_sem = "open"
              /\ arena[Writer].read_sem = "open")]_vars


\* C37: when the timed wait of the only consuming handle expires, every
\* batch the writer has counted in write_sequence has been consumed, apart
\* from one whose ready token the writer is about to post
C37_TimeoutMeansNothingPublished ==
    [][ReadTimeout(SerialReader) =>
          write_sequence - read_sequence =
              (IF pc[Writer] = "w_post" THEN 1 ELSE 0)]_vars


\* the steps of ReadRecordBatch after its wait has taken a ready token
AcquiredLabels == ReadLabels \ {"r_sem_wait"}

\* C38: a ReadRecordBatch whose decode failed still clears the ready flag
\* of its slot, adds one to read_sequence, posts one free token and returns
\* the error with reads_count and bytes_read unchanged; and every step of a
\* call that has taken a ready token adds a free token exactly when it is
\* the step on which the call returns
C38_DecodeFailureReleasesSlot ==
    [][\A h \in Readers :
          (pc[h] \in AcquiredLabels /\ pc'[h] # pc[h]) =>
              /\ write_sem' = write_sem + (IF pc'[h] = "idle" THEN 1 ELSE 0)
              /\ (local[h].result = NoBatch /\ pc[h] = "r_clear_ready") =>
                     (pc'[h] = "r_inc_seq" /\ ~ready'[local[h].idx])
              /\ (local[h].result = NoBatch /\ pc[h] = "r_inc_seq") =>
                     (pc'[h] = "r_post" /\ read_sequence' = read_sequence + 1)
              /\ (local[h].result = NoBatch /\ pc[h] = "r_post") =>
                     (/\ ret'[h] = "decode_error"
                      /\ stats'[h] = stats[h])
              /\ ret'[h] = "decode_error" => pc[h] = "r_post"]_vars
\* a ReadRecordBatch has returned the decode error
C38_Witness ==
    \E h \in Readers : pc[h] = "idle" /\ ret[h] = "decode_error"


\* C40: every step of Close that dereferences header_ (the store to
\* writer_active or the fetch_sub on reader_count in the unmap block, and
\* the reads of the semaphore names for the writer's sem_unlink) is taken
\* while the region is mapped at header_
C40_CloseReadsMappedHeader ==
    [][\A h \in Handles :
          (\/ /\ CloseUnmap(h, FALSE) \/ CloseUnmap(h, TRUE)
              /\ arena[h].mapped_memory # "nullptr"
           \/ /\ CloseSemWrite(h)
              /\ arena[h].write_sem \notin {"nullptr", "SEM_FAILED"}
           \/ /\ CloseSemRead(h)
              /\ arena[h].read_sem \notin {"nullptr", "SEM_FAILED"})
            => arena[h].header = "mapped"]_vars

=============================================================================
